---- MODULE Spec2Model ----
(***************************************************************************)
(* Model of the yanki-mcp-server protocol adapter (src/index.ts).          *)
(*                                                                         *)
(* The adapter handles protocol requests (resource reads and tool calls)   *)
(* in async handlers.  Every `await client.x.y(...)` is one step of the    *)
(* model: the backend performs the call (possibly changing its state) and  *)
(* the handler runs synchronously up to its next await or to its end.      *)
(* Handlers of different requests interleave at these steps.               *)
(***************************************************************************)
EXTENDS Integers, Sequences, FiniteSets, TLC

\* ----------------------------------------------------------------------
\* Bounds of the model
\* ----------------------------------------------------------------------
MaxRequests == 2      \* requests accepted in one run
MaxAnswers == 2       \* longest `answers` array of an update_cards call
MaxNotes == 2         \* notes the backend can hold

Handlers == {1, 2}    \* request handler slots

\* ----------------------------------------------------------------------
\* JavaScript string helpers
\* ----------------------------------------------------------------------
startsWith(s, pre) ==
  /\ Len(s) >= Len(pre)
  /\ SubSeq(s, 1, Len(pre)) = pre

slice(s, n) == IF n >= Len(s) THEN "" ELSE SubSeq(s, n + 1, Len(s))

includes(s, sub) ==
  \E i \in 1..(Len(s) - Len(sub) + 1) : SubSeq(s, i, i + Len(sub) - 1) = sub

padStart2(s) == IF Len(s) < 2 THEN "0" \o s ELSE s

\* ----------------------------------------------------------------------
\* State
\* ----------------------------------------------------------------------
VARIABLES
  env,        \* environment variables of the process, "" when not set
  today,      \* index in Dates of the current day
  decks,      \* backend: names of the decks that exist
  configs,    \* backend: cloned deck configurations, [id, name]
  deckConf,   \* backend: deck name -> id of its configuration (1 = default)
  notes,      \* backend: notes, [id, deck, front, back]
  reviewed,   \* backend: ids of the cards that were answered
  pc,         \* handler -> the await it is suspended at, "idle" or "done"
  loc,        \* handler -> local variables of its request
  resp,       \* handler -> response of its request
  nreq,       \* number of requests accepted so far
  provisioned, \* decks a createDeckIfNeeded call created with every call succeeding
  stdout,     \* the chunks that reached the underlying output stream, in order
  writes,     \* the calls of process.stdout.write so far, [chunk, forwarded, returned]
  jsonText,   \* the argument of a JSON.parse call
  parsed,     \* what that JSON.parse call yielded, << >> before the call
  markup,     \* the argument of cleanWithRegex
  cleaned,    \* the results of applying cleanWithRegex once, twice, ...
  uriToken,   \* the argument of formatQuery
  nativeQuery, \* what formatQuery returned for it, << >> before the call
  startup     \* main(): where it is and what it installed

\* the state the request handlers do not touch
io == << stdout, writes, jsonText, parsed, markup, cleaned, uriToken, nativeQuery,
        startup >>

vars == << env, today, decks, configs, deckConf, notes, reviewed, pc, loc, resp,
           nreq, provisioned, io >>

backend == << decks, configs, deckConf, notes, reviewed >>

\* ----------------------------------------------------------------------
\* Configuration and deck paths
\* ----------------------------------------------------------------------
DECK == "00_Inbox"

\* the environments a run can start in
Envs ==
  { [ANKI_DECK |-> "", DECK |-> ""],
    [ANKI_DECK |-> "", DECK |-> "Default"],
    [ANKI_DECK |-> "Mine", DECK |-> ""] }

\* process.env.ANKI_DECK || DECK
PREFIX_DECK == IF env.ANKI_DECK # "" THEN env.ANKI_DECK ELSE DECK

\* the calendar days the clock of a run can show
Dates == << [y |-> 2026, m |-> 1, d |-> 9], [y |-> 2026, m |-> 11, d |-> 30] >>

getTodayDeckName(date) ==
  PREFIX_DECK \o "::" \o ToString(date.y) \o "::" \o padStart2(ToString(date.m))
              \o "::" \o padStart2(ToString(date.d))

DeckNames == { getTodayDeckName(Dates[i]) : i \in 1..Len(Dates) }

\* ----------------------------------------------------------------------
\* Query translation
\* ----------------------------------------------------------------------
\* a translation that keeps the prefix it recognised
formatQuery_KeepPrefix(query) ==
  IF startsWith(query, "deck") THEN "deck:" \o query
  ELSE IF startsWith(query, "is") THEN "is:" \o query
  ELSE query

formatQuery(query) ==
  IF startsWith(query, "deck") THEN "deck:" \o slice(query, 4)
  ELSE IF startsWith(query, "is") THEN "is:" \o slice(query, 2)
  ELSE query

\* ----------------------------------------------------------------------
\* Content normalisation (regular expressions of cleanWithRegex, by hand)
\* ----------------------------------------------------------------------
Upper == "ABCDEFGHIJKLMNOPQRSTUVWXYZ"
Lower == "abcdefghijklmnopqrstuvwxyz"

Char(s, i) == SubSeq(s, i, i)

toLowerChar(c) ==
  IF \E k \in 1..26 : Char(Upper, k) = c
  THEN Char(Lower, CHOOSE k \in 1..26 : Char(Upper, k) = c)
  ELSE c

RECURSIVE toLowerCase(_)
toLowerCase(s) ==
  IF s = "" THEN "" ELSE toLowerChar(Char(s, 1)) \o toLowerCase(slice(s, 1))

\* the literal lit stands at position i of s (ci: ignoring case)
LitAt(s, i, lit, ci) ==
  /\ i + Len(lit) - 1 <= Len(s)
  /\ (IF ci THEN toLowerChar(Char(s, i)) ELSE Char(s, i)) = Char(lit, 1)
  /\ IF ci THEN toLowerCase(SubSeq(s, i, i + Len(lit) - 1)) = lit
           ELSE SubSeq(s, i, i + Len(lit) - 1) = lit

MinOf(S) == CHOOSE k \in S : \A j \in S : k <= j

\* first position >= from where lit stands, 0 if there is none
IndexFrom(s, lit, from, ci) ==
  LET K == { k \in from..Len(s) : LitAt(s, k, lit, ci) }
  IN IF K = {} THEN 0 ELSE MinOf(K)

\* End of the match at position i of  open [^close]{minBody,} close , 0 if
\* there is none: the body cannot hold the closing character, so it runs to
\* the first one.
TagEnd(s, i, open, close, minBody, ci) ==
  IF ~LitAt(s, i, open, ci) THEN 0
  ELSE LET k == IndexFrom(s, close, i + Len(open), FALSE)
       IN IF k = 0 \/ k - (i + Len(open)) < minBody THEN 0 ELSE k

\* End of the match at position i of /<style[^>]*>[\s\S]*?<\/style>/i
StyleEnd(s, i) ==
  LET k == TagEnd(s, i, "<style", ">", 0, TRUE)
  IN IF k = 0 THEN 0
     ELSE LET j == IndexFrom(s, "</style>", k + 1, TRUE)
          IN IF j = 0 THEN 0 ELSE j + 7

\* s.replace(/<style[^>]*>[\s\S]*?<\/style>/gi, "") from position i on
RECURSIVE removeStyle(_, _)
removeStyle(s, i) ==
  IF i > Len(s) THEN ""
  ELSE LET e == StyleEnd(s, i)
       IN IF e # 0 THEN removeStyle(s, e + 1)
          ELSE Char(s, i) \o removeStyle(s, i + 1)

\* s.replace(/open[^close]{minBody,}close/g, rep) from position i on
RECURSIVE replaceTag(_, _, _, _, _, _)
replaceTag(s, i, open, close, minBody, rep) ==
  IF i > Len(s) THEN ""
  ELSE LET e == TagEnd(s, i, open, close, minBody, FALSE)
       IN IF e # 0 THEN rep \o replaceTag(s, e + 1, open, close, minBody, rep)
          ELSE Char(s, i) \o replaceTag(s, i + 1, open, close, minBody, rep)

\* s.replace(/lit/g, rep) from position i on
RECURSIVE replaceAll(_, _, _, _)
replaceAll(s, i, lit, rep) ==
  IF i > Len(s) THEN ""
  ELSE IF LitAt(s, i, lit, FALSE)
       THEN rep \o replaceAll(s, i + Len(lit), lit, rep)
       ELSE Char(s, i) \o replaceAll(s, i + 1, lit, rep)

IsSpace(c) == c \in {" ", "\t", "\n", "\r"}

RECURSIVE trimStart(_)
trimStart(s) ==
  IF s # "" /\ IsSpace(Char(s, 1)) THEN trimStart(slice(s, 1)) ELSE s

RECURSIVE trimEnd(_)
trimEnd(s) ==
  IF s # "" /\ IsSpace(Char(s, Len(s))) THEN trimEnd(SubSeq(s, 1, Len(s) - 1)) ELSE s

trim(s) == trimEnd(trimStart(s))

\* s.split("\n")
RECURSIVE split(_)
split(s) ==
  LET k == IndexFrom(s, "\n", 1, FALSE)
  IN IF k = 0 THEN << s >>
     ELSE << SubSeq(s, 1, k - 1) >> \o split(slice(s, k))

RECURSIVE join(_)
join(lines) ==
  IF lines = << >> THEN ""
  ELSE IF Len(lines) = 1 THEN lines[1]
  ELSE lines[1] \o "\n" \o join(Tail(lines))

\* the lines trimmed, the empty ones kept
RECURSIVE trimAndFilter_KeepEmpty(_)
trimAndFilter_KeepEmpty(lines) ==
  IF lines = << >> THEN << >>
  ELSE << trim(lines[1]) >> \o trimAndFilter_KeepEmpty(Tail(lines))

\* lines.map(trim).filter(line => line.length > 0)
RECURSIVE trimAndFilter(_)
trimAndFilter(lines) ==
  IF lines = << >> THEN << >>
  ELSE LET l == trim(lines[1])
       IN (IF Len(l) > 0 THEN << l >> ELSE << >>) \o trimAndFilter(Tail(lines))

decodeEntities(s) ==
  LET a == replaceAll(s, 1, "&nbsp;", " ")
      b == replaceAll(a, 1, "&amp;", "&")
      c == replaceAll(b, 1, "&lt;", "<")
      d == replaceAll(c, 1, "&gt;", ">")
  IN replaceAll(d, 1, "&quot;", "\"")

\* the lines split, trimmed and joined before the tags are replaced
cleanWithRegex_SplitFirst(htmlString) ==
  LET a == join(trimAndFilter(split(removeStyle(htmlString, 1))))
      b == replaceTag(a, 1, "<div", ">", 0, "\n")
      c == replaceTag(b, 1, "<", ">", 1, " ")
      d == replaceTag(c, 1, "[anki:play:", "]", 1, "")
  IN decodeEntities(d)

cleanWithRegex(htmlString) ==
  LET a == removeStyle(htmlString, 1)
      b == replaceTag(a, 1, "<div", ">", 0, "\n")
      c == replaceTag(b, 1, "<", ">", 1, " ")
      d == replaceTag(c, 1, "[anki:play:", "]", 1, "")
  IN join(trimAndFilter(split(decodeEntities(d))))

\* ----------------------------------------------------------------------
\* Results of backend client calls
\* ----------------------------------------------------------------------
\* a response body that is not JSON: the client library raises a SyntaxError
JsonError == [syntax |-> TRUE, message |-> "Unexpected token W in JSON at position 0"]
\* the backend refuses to create a deck that is already there
ExistsError == [syntax |-> FALSE, message |-> "deck already exists"]
\* the backend cannot be reached
NetError == [syntax |-> FALSE, message |-> "fetch failed"]
\* the backend rejects a search it cannot parse
QueryError == [syntax |-> FALSE, message |-> "invalid search"]

Ok(v) == [kind |-> "ok", value |-> v]
Null == [kind |-> "null"]
Throw(e) == [kind |-> "throw", err |-> e]

\* the backend carried the call out: it answered, with a result or with a
\* body the client could not read
Reached(raw) == raw.kind = "ok" \/ (raw.kind = "throw" /\ raw.err.syntax)

\* the backend client methods the adapter calls
ClientMethods ==
  {"deckNames", "createDeck", "cloneDeckConfigId", "setDeckConfigId", "findCards",
   "cardsInfo", "addNote", "answerCards"}

\* the methods main hands to wrapMethod
WrappedMethods ==
  {"deckNames", "createDeck", "addNote", "findCards", "cardsInfo", "answerCards"}

\* what a call of client method methodName yields, given what the library's
\* own method (raw) yields
wrapMethod(methodName, raw) ==
  IF startup.wrapped[methodName] > 0
  THEN IF raw.kind = "throw" /\ raw.err.syntax /\ includes(raw.err.message, "JSON")
       THEN Null
       ELSE raw
  ELSE raw

\* one entry of a request's record of the backend calls it made
Call(m, a, r) ==
  [m |-> m, a |-> a, k |-> r.kind,
   e |-> IF r.kind = "throw" THEN r.err.message ELSE ""]

\* ----------------------------------------------------------------------
\* Initial state
\* ----------------------------------------------------------------------
NoResp == [status |-> "none", text |-> "", data |-> << >>]

NoLoc ==
  [tool |-> "", args |-> << >>, hasArgs |-> FALSE, deckName |-> "",
   noteId |-> 0, prov |-> "none", provExists |-> FALSE, again |-> FALSE,
   calls |-> << >>, clonedConfigId |-> 0, cardIds |-> << >>,
   idsNull |-> FALSE, query |-> "", cards |-> << >>, created |-> FALSE]

\* the server after start-up, in front of an empty collection
Start ==
  /\ env \in Envs
  /\ today = 1
  /\ decks = {}
  /\ configs = {}
  /\ deckConf = [d \in DeckNames |-> 1]
  /\ notes = {}
  /\ reviewed = {}
  /\ pc = [p \in Handlers |-> "idle"]
  /\ loc = [p \in Handlers |-> NoLoc]
  /\ resp = [p \in Handlers |-> NoResp]
  /\ nreq = 0
  /\ provisioned = {}

\* nothing was written, parsed or normalized yet
Quiet ==
  /\ stdout = << >>
  /\ writes = << >>
  /\ jsonText = [type |-> "string", str |-> ""]
  /\ parsed = << >>
  /\ markup = ""
  /\ cleaned = << >>
  /\ uriToken = ""
  /\ nativeQuery = << >>

\* main() has run: the wrappers and the patch are in place and the server is
\* connected to its transport
Running ==
  [pc |-> "connected",
   wrapped |-> [m \in ClientMethods |-> IF m \in WrappedMethods THEN 1 ELSE 0],
   patched |-> 1, check |-> "ok"]

Init == Start /\ Quiet /\ startup = Running

\* ----------------------------------------------------------------------
\* Environment
\* ----------------------------------------------------------------------
\* midnight passes
Tick ==
  /\ today < Len(Dates)
  /\ today' = today + 1
  /\ UNCHANGED << io, env, backend, pc, loc, resp, nreq, provisioned >>

\* another client of the backend (the desktop application, a second server)
\* creates a deck
ExternalCreateDeck ==
  /\ \E d \in DeckNames \ decks : decks' = decks \cup {d}
  /\ UNCHANGED << io, env, today, configs, deckConf, notes, reviewed, pc, loc, resp,
                  nreq, provisioned >>

\* ----------------------------------------------------------------------
\* createDeckIfNeeded: where control goes after each awaited backend call
\* ----------------------------------------------------------------------
Goto(to) == [to |-> to, ret |-> "none"]
Return(b) == [to |-> "", ret |-> IF b THEN "true" ELSE "false"]
Raise == [to |-> "", ret |-> "threw"]

\* Array.isArray(names) && names.includes(deckName)
listsDeck(r, deckName) == r.kind = "ok" /\ deckName \in r.value

\* the handler of the outer try block as it was before the re-listing was
\* added: give up
OuterCatch_GiveUp == Return(FALSE)

\* a handler of the outer try block that starts provisioning over
OuterCatch_Retry == Goto("deckNames1")

\* the handler of the outer try block: list the decks once more
OuterCatch == Goto("deckNames3")

\* an inner handler that does not look at the message
InnerCatch_GiveUp(e) == Return(FALSE)

\* the handler of the inner try block
InnerCatch(e) ==
  IF includes(e.message, "already exists") THEN Goto("deckNames2") ELSE OuterCatch

\* a first listing that never takes the fast path
AfterDeckNames1_NoFastPath(r, deckName) ==
  IF r.kind = "throw" THEN OuterCatch ELSE Goto("createDeck")

AfterDeckNames1(r, deckName) ==
  IF r.kind = "throw" THEN OuterCatch
  ELSE IF listsDeck(r, deckName) THEN Return(TRUE)
  ELSE Goto("createDeck")

\* a creation whose failure ends provisioning
AfterCreateDeck_NoTolerance(r) ==
  IF r.kind = "throw" THEN Return(FALSE) ELSE Goto("cloneDeckConfigId")

AfterCreateDeck(r) ==
  IF r.kind = "throw" THEN InnerCatch(r.err) ELSE Goto("cloneDeckConfigId")

AfterCloneDeckConfigId(r) ==
  IF r.kind = "throw" THEN InnerCatch(r.err) ELSE Goto("setDeckConfigId")

AfterSetDeckConfigId(r) ==
  IF r.kind = "throw" THEN InnerCatch(r.err) ELSE Goto("deckNames2")

AfterDeckNames2(r, deckName) ==
  IF r.kind = "throw" THEN OuterCatch ELSE Return(listsDeck(r, deckName))

\* a fallback listing that forgets to look for the deck
AfterDeckNames3_NoIncludes(r, deckName) ==
  IF r.kind = "throw" THEN Return(FALSE) ELSE Return(r.kind = "ok")

\* a fallback listing without its own try block
AfterDeckNames3_NoCatch(r, deckName) ==
  IF r.kind = "throw" THEN Raise ELSE Return(listsDeck(r, deckName))

AfterDeckNames3(r, deckName) ==
  IF r.kind = "throw" THEN Return(FALSE) ELSE Return(listsDeck(r, deckName))

AfterDeckNames(at, r, deckName) ==
  CASE at = "deckNames1" -> AfterDeckNames1(r, deckName)
    [] at = "deckNames2" -> AfterDeckNames2(r, deckName)
    [] at = "deckNames3" -> AfterDeckNames3(r, deckName)

\* ----------------------------------------------------------------------
\* Responses
\* ----------------------------------------------------------------------
Result(text, data) == [status |-> "ok", text |-> text, data |-> data]
Failure(message) == [status |-> "error", text |-> message, data |-> << >>]

\* String(v) of an argument that may be missing
String(args, key) == IF key \in DOMAIN args THEN args[key] ELSE "undefined"

\* a number in a template literal; 0 stands for undefined / null
IdText(n) == IF n = 0 THEN "undefined" ELSE ToString(n)

AllOk(calls) == \A i \in 1..Len(calls) : calls[i].k = "ok"

\* ----------------------------------------------------------------------
\* add_card
\* ----------------------------------------------------------------------
\* a handler that does not look at the result of provisioning
deckCreatedCheck_Ignored(ret) == TRUE

\* if (!deckCreated) throw ...
deckCreatedCheck(ret) == ret = "true"

\* One step of createDeckIfNeeded in the add_card request of handler p: the
\* call of method m with argument a yielded r, the backend's decks are now
\* newDecks, and control goes where ctl says.
ProvisionStep(p, m, a, r, ctl, newDecks) ==
  LET calls == Append(loc[p].calls, Call(m, a, r))
      d == loc[p].deckName
  IN /\ loc' = [loc EXCEPT ![p].calls = calls,
                           ![p].prov = ctl.ret,
                           ![p].provExists = (ctl.ret # "none" /\ d \in newDecks),
                           ![p].clonedConfigId =
                              IF m = "cloneDeckConfigId" /\ r.kind = "ok"
                              THEN r.value ELSE @]
     /\ provisioned' =
          IF ctl.ret = "true" /\ AllOk(calls) /\ Len(calls) > 1
          THEN provisioned \cup {d} ELSE provisioned
     /\ IF ctl.ret = "none"
        THEN /\ pc' = [pc EXCEPT ![p] = ctl.to]
             /\ UNCHANGED resp
        ELSE IF ctl.ret = "threw"
        THEN /\ pc' = [pc EXCEPT ![p] = "done"]
             /\ resp' = [resp EXCEPT ![p] = Failure(r.err.message)]
        ELSE IF deckCreatedCheck(ctl.ret)
        THEN /\ pc' = [pc EXCEPT ![p] = "addNote"]
             /\ UNCHANGED resp
        ELSE /\ pc' = [pc EXCEPT ![p] = "done"]
             /\ resp' = [resp EXCEPT ![p] = Failure("Failed to create deck: " \o d)]

\* await client.deck.deckNames(), at any of its three places
DeckNamesStep(p) ==
  /\ pc[p] \in {"deckNames1", "deckNames2", "deckNames3"}
  /\ \E raw \in {Ok(decks), Throw(NetError), Throw(JsonError)} :
       LET r == wrapMethod("deckNames", raw)
       IN ProvisionStep(p, "deckNames", "", r,
                        AfterDeckNames(pc[p], r, loc[p].deckName), decks)
  /\ UNCHANGED << io, env, today, backend, nreq >>

\* await client.deck.createDeck({ deck: deckName })
CreateDeckStep(p) ==
  /\ pc[p] = "createDeck"
  /\ LET d == loc[p].deckName
     IN \E raw \in {Ok(1), Throw(NetError), Throw(JsonError)}
                   \cup (IF d \in decks THEN {Throw(ExistsError)} ELSE {}) :
          LET r == wrapMethod("createDeck", raw)
              newDecks == IF Reached(raw) THEN decks \cup {d} ELSE decks
          IN /\ decks' = newDecks
             /\ ProvisionStep(p, "createDeck", d, r, AfterCreateDeck(r), newDecks)
  /\ UNCHANGED << io, env, today, configs, deckConf, notes, reviewed, nreq >>

\* await client.deck.cloneDeckConfigId({ name, cloneFrom })
CloneDeckConfigIdStep(p) ==
  /\ pc[p] = "cloneDeckConfigId"
  /\ LET name == loc[p].deckName \o "::config"
         id == Cardinality(configs) + 2
     IN \E raw \in {Ok(id), Throw(NetError), Throw(JsonError)} :
          LET r == wrapMethod("cloneDeckConfigId", raw)
          IN /\ configs' = IF Reached(raw)
                           THEN configs \cup {[id |-> id, name |-> name]}
                           ELSE configs
             /\ ProvisionStep(p, "cloneDeckConfigId", name, r,
                              AfterCloneDeckConfigId(r), decks)
  /\ UNCHANGED << io, env, today, decks, deckConf, notes, reviewed, nreq >>

\* await client.deck.setDeckConfigId({ decks: [deckName], configId })
SetDeckConfigIdStep(p) ==
  /\ pc[p] = "setDeckConfigId"
  /\ LET d == loc[p].deckName
     IN \E raw \in {Ok(TRUE), Throw(NetError), Throw(JsonError)} :
          LET r == wrapMethod("setDeckConfigId", raw)
          IN /\ deckConf' = IF Reached(raw)
                            THEN [deckConf EXCEPT ![d] = loc[p].clonedConfigId]
                            ELSE deckConf
             /\ ProvisionStep(p, "setDeckConfigId", d, r,
                              AfterSetDeckConfigId(r), decks)
  /\ UNCHANGED << io, env, today, decks, configs, notes, reviewed, nreq >>

\* ----------------------------------------------------------------------
\* Backend: cards and searches
\* ----------------------------------------------------------------------
\* the cards the collection holds from the start, in the backend's own order
StoredCards ==
  << [cardId |-> 3, question |-> "<div>Q3</div>", answer |-> "A&amp;3",
      due |-> 7, queue |-> "due"],
     [cardId |-> 1, question |-> "<b>Q1</b>", answer |-> "A1", due |-> 4,
      queue |-> "due"],
     [cardId |-> 2, question |-> "Q2", answer |-> "A2<br>", due |-> 4,
      queue |-> "due"],
     [cardId |-> 4, question |-> "Q4", answer |-> "&lt;A4&gt;", due |-> 2,
      queue |-> "new"] >>

StoredIds == { StoredCards[i].cardId : i \in 1..Len(StoredCards) }

\* the card the backend generates for a note of the Basic model
NoteCardId(noteId) == 100 + noteId

NoteCard(n) ==
  [cardId |-> NoteCardId(n.id), question |-> n.front, answer |-> n.back,
   due |-> n.id, queue |-> "new"]

RECURSIVE SetToSeq(_)
SetToSeq(S) ==
  IF S = {} THEN << >>
  ELSE LET x == CHOOSE y \in S : \A z \in S : y.id <= z.id
       IN << x >> \o SetToSeq(S \ {x})

\* all cards of the collection as the backend sees them now
AllCards(ns, rev) ==
  LET stored == [i \in 1..Len(StoredCards) |->
                   IF StoredCards[i].cardId \in rev
                   THEN [StoredCards[i] EXCEPT !.queue = "review"]
                   ELSE StoredCards[i]]
      noteSeq == SetToSeq(ns)
  IN stored \o [i \in 1..Len(noteSeq) |-> NoteCard(noteSeq[i])]

RECURSIVE SelectSeq2(_, _)
SelectSeq2(seq, S) ==
  IF seq = << >> THEN << >>
  ELSE (IF Head(seq) \in S THEN << Head(seq) >> ELSE << >>) \o SelectSeq2(Tail(seq), S)

\* the ids of the cards a search the backend understands matches
Matching(query, ns, rev) ==
  LET all == AllCards(ns, rev)
      ids == [i \in 1..Len(all) |-> all[i].cardId]
      pick(S) == SelectSeq2(ids, S)
  IN CASE query = "is:due" ->
            pick({ all[i].cardId : i \in { j \in 1..Len(all) : all[j].queue = "due" } })
       [] query = "is:new" ->
            pick({ all[i].cardId : i \in { j \in 1..Len(all) : all[j].queue = "new" } })
       [] query = "deck:current" -> ids
       [] OTHER -> pick({ NoteCardId(n.id) : n \in { m \in ns : query = "nid:" \o ToString(m.id) } })

Understood(query, ns) ==
  \/ query \in {"is:due", "is:new", "deck:current"}
  \/ \E n \in ns : query = "nid:" \o ToString(n.id)
  \/ query = "nid:null"

\* what the library's findCards can yield for a query; a search the backend
\* does not understand is refused, matches nothing, or has its unreadable
\* term ignored and matches every card
FindCardsOutcomes(query, ns, rev) ==
  {Throw(NetError), Throw(JsonError)}
  \cup (IF Understood(query, ns)
        THEN {Ok(Matching(query, ns, rev))}
        ELSE {Throw(QueryError), Ok(<< >>), Ok(Matching("deck:current", ns, rev))})

\* the records of the cards with the given ids, in the order of the ids
RECURSIVE CardRecords(_, _)
CardRecords(ids, all) ==
  IF ids = << >> THEN << >>
  ELSE LET K == { i \in 1..Len(all) : all[i].cardId = Head(ids) }
       IN (IF K = {} THEN << >> ELSE << all[CHOOSE i \in K : TRUE] >>)
          \o CardRecords(Tail(ids), all)

\* ----------------------------------------------------------------------
\* add_card, after provisioning
\* ----------------------------------------------------------------------
\* a handler that does not look at the note identifier
noteIdCheck_Ignored(noteId) == TRUE

\* if (!noteId) throw ...
noteIdCheck(noteId) == noteId # 0

\* await client.note.addNote(note)
AddNoteStep(p) ==
  /\ pc[p] = "addNote"
  /\ LET d == loc[p].deckName
         id == Cardinality(notes) + 1
         note == [id |-> id, deck |-> d, front |-> String(loc[p].args, "front"),
                  back |-> String(loc[p].args, "back")]
     IN \E raw \in {Ok(0), Throw(NetError)}
                   \cup (IF d \in decks /\ Cardinality(notes) < MaxNotes
                         THEN {Ok(id), Throw(JsonError)} ELSE {}) :
          LET r == wrapMethod("addNote", raw)
              noteId == IF r.kind = "ok" THEN r.value ELSE 0
              created == Reached(raw) /\ ~(raw.kind = "ok" /\ raw.value = 0)
          IN /\ notes' = IF created THEN notes \cup {note} ELSE notes
             /\ loc' = [loc EXCEPT ![p].calls = Append(@, Call("addNote", d, r)),
                                   ![p].noteId = noteId,
                                   ![p].created = created]
             /\ IF r.kind = "throw"
                THEN /\ pc' = [pc EXCEPT ![p] = "done"]
                     /\ resp' = [resp EXCEPT ![p] = Failure(r.err.message)]
                ELSE IF noteIdCheck(noteId)
                THEN /\ pc' = [pc EXCEPT ![p] = "findCardsNid"]
                     /\ UNCHANGED resp
                ELSE /\ pc' = [pc EXCEPT ![p] = "done"]
                     /\ resp' = [resp EXCEPT ![p] = Failure("Failed to add note to Anki")]
  /\ UNCHANGED << io, env, today, decks, configs, deckConf, reviewed, nreq, provisioned >>

\* await client.card.findCards({ query: `nid:${noteId}` }) and the rest of
\* the add_card case
FindCardsNidStep(p) ==
  /\ pc[p] = "findCardsNid"
  /\ LET query == "nid:" \o (IF loc[p].noteId = 0 THEN "null" ELSE ToString(loc[p].noteId))
     IN \E raw \in FindCardsOutcomes(query, notes, reviewed) :
          LET r == wrapMethod("findCards", raw)
              cardId == IF r.kind = "ok" /\ Len(r.value) > 0 THEN r.value[1] ELSE 0
          IN /\ loc' = [loc EXCEPT ![p].calls = Append(@, Call("findCards", query, r))]
             /\ pc' = [pc EXCEPT ![p] = "done"]
             /\ resp' = [resp EXCEPT ![p] =
                  IF r.kind = "throw" THEN Failure(r.err.message)
                  ELSE IF r.kind = "null"
                  THEN Failure("Cannot read properties of null (reading '0')")
                  ELSE Result("Created card with id " \o IdText(cardId)
                                \o " in deck " \o loc[p].deckName,
                              << cardId >>)]
  /\ UNCHANGED << io, env, today, backend, nreq, provisioned >>

\* ----------------------------------------------------------------------
\* findCardsAndOrder
\* ----------------------------------------------------------------------
\* cards.sort((a, b) => a.due - b.due): the sort is stable
RECURSIVE insertByDue(_, _)
insertByDue(card, sorted) ==
  IF sorted = << >> THEN << card >>
  ELSE IF card.due - Head(sorted).due < 0 THEN << card >> \o sorted
  ELSE << Head(sorted) >> \o insertByDue(card, Tail(sorted))

RECURSIVE sortByDue(_)
sortByDue(cards) ==
  IF cards = << >> THEN << >>
  ELSE insertByDue(cards[Len(cards)], sortByDue(SubSeq(cards, 1, Len(cards) - 1)))

\* the Card built from a backend record
toCard(card) ==
  [cardId |-> card.cardId, question |-> cleanWithRegex(card.question),
   answer |-> cleanWithRegex(card.answer), due |-> card.due]

\* the cards in the order the backend gave the records in
mapAndSort_NoSort(records) == [i \in 1..Len(records) |-> toCard(records[i])]

\* records.map(card => ({...})).sort((a, b) => a.due - b.due)
mapAndSort(records) == sortByDue([i \in 1..Len(records) |-> toCard(records[i])])

\* Number(args.num)
Number(args, key) ==
  IF key \in DOMAIN args THEN [nan |-> FALSE, n |-> args[key]]
  ELSE [nan |-> TRUE, n |-> 0]

\* cards.slice(0, num)
sliceTo(cards, num) ==
  LET len == Len(cards)
      end == IF num.nan THEN 0
             ELSE IF num.n < 0 THEN (IF len + num.n < 0 THEN 0 ELSE len + num.n)
             ELSE IF num.n > len THEN len ELSE num.n
  IN SubSeq(cards, 1, end)

\* the response the caller of findCardsAndOrder builds from the cards
CardsResponse(l, cards) ==
  IF l.tool = "read_resource" THEN Result("JSON", cards)
  ELSE Result("JSON", sliceTo(cards, Number(l.args, "num")))

\* await client.card.findCards({ query: formatQuery(query) })
FindCardsStep(p) ==
  /\ pc[p] = "findCards"
  /\ LET q == formatQuery(loc[p].query)
     IN \E raw \in FindCardsOutcomes(q, notes, reviewed) :
          LET r == wrapMethod("findCards", raw)
          IN /\ loc' = [loc EXCEPT ![p].calls = Append(@, Call("findCards", q, r)),
                                   ![p].cardIds = IF r.kind = "ok" THEN r.value ELSE << >>,
                                   ![p].idsNull = (r.kind = "null")]
             /\ IF r.kind = "throw"
                THEN /\ pc' = [pc EXCEPT ![p] = "done"]
                     /\ resp' = [resp EXCEPT ![p] = Failure(r.err.message)]
                ELSE /\ pc' = [pc EXCEPT ![p] = "cardsInfo"]
                     /\ UNCHANGED resp
  /\ UNCHANGED << io, env, today, backend, nreq, provisioned >>

\* the mapping, the sort and the caller's response, given what the library's
\* cardsInfo yielded
CardsInfoAnswer(p, raw) ==
  LET r == wrapMethod("cardsInfo", raw)
      cards == IF r.kind = "ok" THEN mapAndSort(r.value) ELSE << >>
  IN /\ loc' = [loc EXCEPT ![p].calls = Append(@, Call("cardsInfo", "", r)),
                           ![p].cards = cards]
     /\ pc' = [pc EXCEPT ![p] = "done"]
     /\ resp' = [resp EXCEPT ![p] =
          IF r.kind = "throw" THEN Failure(r.err.message)
          ELSE IF r.kind = "null"
          THEN Failure("Cannot read properties of null (reading 'map')")
          ELSE CardsResponse(loc[p], cards)]

\* await client.card.cardsInfo({ cards: cardIds }): the call fails, or it
\* yields the records of the cards
CardsInfoStep(p) ==
  /\ pc[p] = "cardsInfo"
  /\ \/ \E raw \in {Throw(NetError), Throw(JsonError)} : CardsInfoAnswer(p, raw)
     \/ \E raw \in (IF loc[p].idsNull THEN {Ok(<< >>)}
                     ELSE {Ok(CardRecords(loc[p].cardIds, AllCards(notes, reviewed)))}) :
          CardsInfoAnswer(p, raw)
  /\ UNCHANGED << io, env, today, backend, nreq, provisioned >>

\* ----------------------------------------------------------------------
\* update_cards
\* ----------------------------------------------------------------------
RECURSIVE joinIds(_)
joinIds(ids) ==
  IF ids = << >> THEN ""
  ELSE IF Len(ids) = 1 THEN ToString(ids[1])
  ELSE ToString(ids[1]) \o ", " \o joinIds(Tail(ids))

\* answers.filter((_, index) => keep(index)).map(card => card.cardId)
RECURSIVE filterIds(_, _, _)
filterIds(answers, keep, from) ==
  IF from > Len(answers) THEN << >>
  ELSE (IF from \in keep THEN << answers[from].cardId >> ELSE << >>)
       \o filterIds(answers, keep, from + 1)

\* result[0] read where result[index] is meant
Truthy_FirstOnly(answers, result) ==
  IF Len(result) > 0 /\ result[1] THEN 1..Len(answers) ELSE {}

\* the positions the positional result marks true; a position the result
\* does not have reads as undefined
Truthy(answers, result) ==
  { i \in 1..Len(answers) : i <= Len(result) /\ result[i] }

\* the backend answers a card it holds with an ease from 1 to 4
Accepts(answer) == answer.cardId \in StoredIds /\ answer.ease \in 1..4

\* the part of the update_cards case after the await
AfterAnswerCards(l, r) ==
  IF r.kind = "throw" THEN Failure(r.err.message)
  ELSE IF "answers" \notin DOMAIN l.args
  THEN Failure("Cannot read properties of undefined (reading 'filter')")
  ELSE LET answers == l.args.answers
       IN IF r.kind = "null"
          THEN IF Len(answers) > 0
               THEN Failure("Cannot read properties of null (reading '0')")
               ELSE Result("Updated cards ", << >>)
          ELSE LET ok == Truthy(answers, r.value)
                   successfulCards == filterIds(answers, ok, 1)
                   failedCardIds == filterIds(answers, (1..Len(answers)) \ ok, 1)
               IN IF Len(failedCardIds) > 0
                  THEN Failure("Failed to update cards with IDs: " \o joinIds(failedCardIds))
                  ELSE Result("Updated cards " \o joinIds(successfulCards), successfulCards)

\* await client.card.answerCards({ answers: answers })
AnswerCardsStep(p) ==
  /\ pc[p] = "answerCards"
  /\ LET has == "answers" \in DOMAIN loc[p].args
         answers == IF has THEN loc[p].args.answers ELSE << >>
         result == [i \in 1..Len(answers) |-> Accepts(answers[i])]
     IN \E raw \in {Throw(NetError)}
                   \cup (IF has THEN {Ok(result), Throw(JsonError)}
                         ELSE {Throw(QueryError)}) :
          LET r == wrapMethod("answerCards", raw)
          IN /\ reviewed' = IF Reached(raw)
                            THEN reviewed \cup { answers[i].cardId :
                                                 i \in { j \in 1..Len(answers) : result[j] } }
                            ELSE reviewed
             /\ loc' = [loc EXCEPT ![p].calls = Append(@, Call("answerCards", "", r))]
             /\ pc' = [pc EXCEPT ![p] = "done"]
             /\ resp' = [resp EXCEPT ![p] = AfterAnswerCards(loc[p], r)]
  /\ UNCHANGED << io, env, today, decks, configs, deckConf, notes, nreq, provisioned >>

\* ----------------------------------------------------------------------
\* Requests
\* ----------------------------------------------------------------------
ToolNames == {"update_cards", "add_card", "get_due_cards", "get_new_cards"}

AnswerChoices ==
  { [cardId |-> 1, ease |-> 2], [cardId |-> 2, ease |-> 9], [cardId |-> 3, ease |-> 4] }

AnswerLists == UNION { [1..n -> AnswerChoices] : n \in 0..MaxAnswers }

NoKeys == [k \in {} |-> ""]

\* the argument mappings a client sends with a tool name
ArgChoices(name) ==
  CASE name = "add_card" -> {[front |-> "Q", back |-> "A"], [back |-> "A"]}
    [] name = "update_cards" -> {[answers |-> a] : a \in AnswerLists} \cup {NoKeys}
    [] name \in {"get_due_cards", "get_new_cards"} ->
         {[num |-> n] : n \in {-1, 0, 2}} \cup {NoKeys}
    [] OTHER -> {NoKeys}

Uris == {"anki://search/isdue", "anki://search/isnew", "anki://search/deckcurrent",
         "anki://search/"}

\* new URL(uri).pathname of an anki:// URI
pathname(uri) ==
  LET rest == slice(uri, Len("anki://"))
      k == IndexFrom(rest, "/", 1, FALSE)
  IN IF k = 0 THEN "" ELSE slice(rest, k - 1)

\* path.split("/").pop()
RECURSIVE lastSegment(_)
lastSegment(path) ==
  LET k == IndexFrom(path, "/", 1, FALSE)
  IN IF k = 0 THEN path ELSE lastSegment(slice(path, k))

\* The protocol client sends a request when the previous one was answered;
\* the request runs in the lowest handler.
Free(p) ==
  /\ \A q \in Handlers : pc[q] = "idle" /\ p <= q
  /\ nreq < MaxRequests

\* the response of a finished request goes out and its handler ends
Reply(p) ==
  /\ pc[p] = "done"
  /\ pc' = [pc EXCEPT ![p] = "idle"]
  /\ loc' = [loc EXCEPT ![p] = NoLoc]
  /\ resp' = [resp EXCEPT ![p] = NoResp]
  /\ UNCHANGED << io, env, today, backend, nreq, provisioned >>

\* the handler of CallToolRequestSchema, up to its first await
CallToolRequest(p) ==
  /\ Free(p)
  /\ nreq' = nreq + 1
  /\ \E name \in ToolNames \cup {"delete_deck"}, hasArgs \in BOOLEAN :
     \E args \in (IF hasArgs THEN ArgChoices(name) ELSE {NoKeys}) :
       LET l == [NoLoc EXCEPT !.tool = name, !.args = args, !.hasArgs = hasArgs]
       IN IF ~hasArgs
          THEN /\ loc' = [loc EXCEPT ![p] = l]
               /\ pc' = [pc EXCEPT ![p] = "done"]
               /\ resp' = [resp EXCEPT ![p] =
                            Failure("No arguments provided for tool: " \o name)]
          ELSE CASE name = "update_cards" ->
                      /\ loc' = [loc EXCEPT ![p] = l]
                      /\ pc' = [pc EXCEPT ![p] = "answerCards"]
                      /\ resp' = [resp EXCEPT ![p] = NoResp]
                 [] name = "add_card" ->
                      LET deckName == getTodayDeckName(Dates[today])
                      IN /\ loc' = [loc EXCEPT ![p] =
                                      [l EXCEPT !.deckName = deckName,
                                                !.again = (deckName \in provisioned)]]
                         /\ pc' = [pc EXCEPT ![p] = "deckNames1"]
                         /\ resp' = [resp EXCEPT ![p] = NoResp]
                 [] name = "get_due_cards" ->
                      /\ loc' = [loc EXCEPT ![p] = [l EXCEPT !.query = "is:due"]]
                      /\ pc' = [pc EXCEPT ![p] = "findCards"]
                      /\ resp' = [resp EXCEPT ![p] = NoResp]
                 [] name = "get_new_cards" ->
                      /\ loc' = [loc EXCEPT ![p] = [l EXCEPT !.query = "is:new"]]
                      /\ pc' = [pc EXCEPT ![p] = "findCards"]
                      /\ resp' = [resp EXCEPT ![p] = NoResp]
                 [] OTHER ->
                      /\ loc' = [loc EXCEPT ![p] = l]
                      /\ pc' = [pc EXCEPT ![p] = "done"]
                      /\ resp' = [resp EXCEPT ![p] = Failure("Unknown tool")]
  /\ UNCHANGED << io, env, today, backend, provisioned >>

\* a handler that reads any URI
queryCheck_Ignored(query) == TRUE

\* if (!query) throw new Error("Invalid resource URI")
queryCheck(query) == query # ""

\* the handler of ReadResourceRequestSchema, up to its first await
ReadResourceRequest(p) ==
  /\ Free(p)
  /\ nreq' = nreq + 1
  /\ \E uri \in Uris :
       LET query == lastSegment(pathname(uri))
           l == [NoLoc EXCEPT !.tool = "read_resource", !.args = [uri |-> uri],
                              !.hasArgs = TRUE, !.query = query]
       IN /\ loc' = [loc EXCEPT ![p] = l]
          /\ IF queryCheck(query)
             THEN /\ pc' = [pc EXCEPT ![p] = "findCards"]
                  /\ resp' = [resp EXCEPT ![p] = NoResp]
             ELSE /\ pc' = [pc EXCEPT ![p] = "done"]
                  /\ resp' = [resp EXCEPT ![p] = Failure("Invalid resource URI")]
  /\ UNCHANGED << io, env, today, backend, provisioned >>

\* ----------------------------------------------------------------------
\* Specification
\* ----------------------------------------------------------------------
Next ==
  \/ Tick
  \/ ExternalCreateDeck
  \/ \E p \in Handlers : CallToolRequest(p)
  \/ \E p \in Handlers : ReadResourceRequest(p)
  \/ \E p \in Handlers : DeckNamesStep(p)
  \/ \E p \in Handlers : CreateDeckStep(p)
  \/ \E p \in Handlers : CloneDeckConfigIdStep(p)
  \/ \E p \in Handlers : SetDeckConfigIdStep(p)
  \/ \E p \in Handlers : AddNoteStep(p)
  \/ \E p \in Handlers : FindCardsNidStep(p)
  \/ \E p \in Handlers : FindCardsStep(p)
  \/ \E p \in Handlers : CardsInfoStep(p)
  \/ \E p \in Handlers : AnswerCardsStep(p)
  \/ \E p \in Handlers : Reply(p)

Spec == Init /\ [][Next]_vars

\* ----------------------------------------------------------------------
\* A backend that answers every call, with a result or with an error
\* ----------------------------------------------------------------------
\* the backend answers the call some handler awaits
Answer ==
  \E p \in Handlers :
    \/ DeckNamesStep(p)
    \/ CreateDeckStep(p)
    \/ CloneDeckConfigIdStep(p)
    \/ SetDeckConfigIdStep(p)
    \/ AddNoteStep(p)
    \/ FindCardsNidStep(p)
    \/ FindCardsStep(p)
    \/ CardsInfoStep(p)
    \/ AnswerCardsStep(p)

\* An awaited client call resumes its handler when the backend has answered
\* or the transport has failed: a call that stays pending is eventually
\* answered.  Requests come one at a time, so that at most one call is
\* pending.
Answering == WF_vars(Answer)

\* the last request of a run: the requests before it were rejected before
\* their first backend call
InitLive ==
  /\ env \in Envs
  /\ today = 1
  /\ decks = {}
  /\ configs = {}
  /\ deckConf = [d \in DeckNames |-> 1]
  /\ notes = {}
  /\ reviewed = {}
  /\ pc = [p \in Handlers |-> "idle"]
  /\ loc = [p \in Handlers |-> NoLoc]
  /\ resp = [p \in Handlers |-> NoResp]
  /\ nreq = MaxRequests - 1
  /\ provisioned = {}
  /\ Quiet
  /\ startup = Running

SpecLive == InitLive /\ [][Next]_vars /\ Answering

\* ----------------------------------------------------------------------
\* Concurrent add_card requests against a backend that answers
\* ----------------------------------------------------------------------
\* The protocol server starts the handler of a request when the request
\* arrives, also while the handler of an earlier request waits for the
\* backend: an add_card request in any idle handler.
AddCardRequest(p) ==
  /\ pc[p] = "idle"
  /\ nreq < MaxRequests
  /\ nreq' = nreq + 1
  /\ LET deckName == getTodayDeckName(Dates[today])
     IN /\ loc' = [loc EXCEPT ![p] =
                     [NoLoc EXCEPT !.tool = "add_card",
                                   !.args = [front |-> "Q", back |-> "A"],
                                   !.hasArgs = TRUE,
                                   !.deckName = deckName,
                                   !.again = (deckName \in provisioned)]]
        /\ pc' = [pc EXCEPT ![p] = "deckNames1"]
        /\ resp' = [resp EXCEPT ![p] = NoResp]
  /\ UNCHANGED << io, env, today, backend, provisioned >>

\* every backend call of the request answered: it returned its result, or it
\* is a createDeck the backend rejected because the deck already exists; an
\* addNote returned the identifier of the note
Responds(l) ==
  /\ \A i \in 1..Len(l.calls) :
        \/ l.calls[i].k = "ok"
        \/ l.calls[i].m = "createDeck" /\ l.calls[i].e = ExistsError.message
  /\ (\E i \in 1..Len(l.calls) : l.calls[i].m = "addNote") => l.noteId # 0

InitRace == Init /\ env = [ANKI_DECK |-> "", DECK |-> ""]

NextRace ==
  \/ ExternalCreateDeck
  \/ \E p \in Handlers : AddCardRequest(p)
  \/ \E p \in Handlers : DeckNamesStep(p) /\ Responds(loc'[p])
  \/ \E p \in Handlers : CreateDeckStep(p) /\ Responds(loc'[p])
  \/ \E p \in Handlers : CloneDeckConfigIdStep(p) /\ Responds(loc'[p])
  \/ \E p \in Handlers : SetDeckConfigIdStep(p) /\ Responds(loc'[p])
  \/ \E p \in Handlers : AddNoteStep(p) /\ Responds(loc'[p])
  \/ \E p \in Handlers : FindCardsNidStep(p) /\ Responds(loc'[p])
  \/ \E p \in Handlers : Reply(p)

SpecRace == InitRace /\ [][NextRace]_vars

\* ----------------------------------------------------------------------
\* process.stdout.write, as replaced at load time
\* ----------------------------------------------------------------------
MaxWrites == 3        \* calls of process.stdout.write in one run

\* the state of the request handlers and of the backend
server == << env, today, decks, configs, deckConf, notes, reviewed, pc, loc, resp,
             nreq, provisioned >>

\* the chunks written: a string, a Buffer (str is what toString() gives),
\* undefined (toString() cannot be called), or an object of another kind
\* whose toString() gives str
Chunks ==
  { [type |-> "string", str |-> "{\"jsonrpc\":\"2.0\",\"id\":1,\"result\":{}}\n"],
    [type |-> "string", str |-> "\n  {\"jsonrpc\":\"2.0\",\"method\":\"ping\"}"],
    [type |-> "string", str |-> "WARNING: plugin loaded"],
    [type |-> "string", str |-> "{ \"jsonrpc\": \"2.0\", \"id\": 2 }"],
    [type |-> "string", str |-> "[{\"jsonrpc\":\"2.0\",\"id\":3}]"],
    [type |-> "string", str |-> ""],
    [type |-> "buffer", str |-> "{\"jsonrpc\":\"2.0\",\"id\":4}\n"],
    [type |-> "buffer", str |-> "Debugger attached.\n"],
    [type |-> "undefined", str |-> ""],
    [type |-> "object", str |-> "{\"jsonrpc\":\"2.0\",\"id\":5}"] }

\* a guard that lets every chunk through
startsWithMarker_Always(str) == TRUE

\* str.trim().startsWith('{"jsonrpc"')
startsWithMarker(str) == startsWith(trim(str), "{\"jsonrpc\"")

\* originalStdoutWrite(chunk, encoding, callback): the stream takes strings
\* and Buffers and throws on anything else; it returns false when its buffer
\* is full (flushed = FALSE)
originalStdoutWrite(chunk, flushed) ==
  IF chunk.type \in {"string", "buffer"} THEN Ok(flushed) ELSE Throw(QueryError)

\* process.stdout.write(chunk, encoding, callback)
Write ==
  /\ Len(writes) < MaxWrites
  /\ \E chunk \in Chunks, flushed \in BOOLEAN :
       LET converts == chunk.type # "undefined"
           forward == converts /\ startsWithMarker(chunk.str)
           r == IF forward THEN originalStdoutWrite(chunk, flushed) ELSE Ok(TRUE)
           returned == IF r.kind = "ok" THEN r.value ELSE TRUE
       IN /\ stdout' = IF forward /\ r.kind = "ok" THEN Append(stdout, chunk)
                       ELSE stdout
          /\ writes' = Append(writes, [chunk |-> chunk, returned |-> returned])
  /\ UNCHANGED << server, jsonText, parsed, markup, cleaned, uriToken, nativeQuery,
                  startup >>

InitWrite == Start /\ Quiet /\ startup = Running /\ env = [ANKI_DECK |-> "", DECK |-> ""]

NextWrite == Write

SpecWrite == InitWrite /\ [][NextWrite]_vars

\* ----------------------------------------------------------------------
\* JSON.parse, as replaced by patchGlobalJsonParse
\* ----------------------------------------------------------------------
MaxPieces == 3        \* pieces a text handed to JSON.parse is made of

Pieces == {"[", "]", "{", "}", ":", ",", "1", "0", "null", "\"", "\\", "a", " "}

RECURSIVE concat(_)
concat(pieces) == IF pieces = << >> THEN "" ELSE Head(pieces) \o concat(Tail(pieces))

\* the texts made of at most MaxPieces pieces
Texts == { concat(ps) : ps \in UNION { [1..n -> Pieces] : n \in 0..MaxPieces } }

\* the arguments of JSON.parse: a string, or a value of another type with
\* the text JSON.parse converts it to
JsonInputs ==
  { [type |-> "string", str |-> t] : t \in Texts }
  \cup { [type |-> "undefined", str |-> "undefined"],
         [type |-> "number", str |-> "10"],
         [type |-> "object", str |-> "[object Object]"] }

NoValue == [ok |-> FALSE, next |-> 0, json |-> ""]
Value(next, json) == [ok |-> TRUE, next |-> next, json |-> json]

RECURSIVE skipWs(_, _)
skipWs(s, i) == IF i <= Len(s) /\ IsSpace(Char(s, i)) THEN skipWs(s, i + 1) ELSE i

IsDigit(c) == \E k \in 1..10 : Char("0123456789", k) = c

RECURSIVE digitsEnd(_, _)
digitsEnd(s, i) == IF i <= Len(s) /\ IsDigit(Char(s, i)) THEN digitsEnd(s, i + 1) ELSE i

\* an integer at position i: no leading zero
parseNumber(s, i) ==
  LET d == IF LitAt(s, i, "-", FALSE) THEN i + 1 ELSE i
      e == IF LitAt(s, d, "0", FALSE) THEN d + 1 ELSE digitsEnd(s, d)
  IN IF e = d THEN NoValue ELSE Value(e, SubSeq(s, i, e - 1))

\* the position after the string that opens at position i - 1, 0 if it is
\* not closed or holds a bad escape or a control character
RECURSIVE stringEnd(_, _)
stringEnd(s, i) ==
  IF i > Len(s) THEN 0
  ELSE IF Char(s, i) = "\"" THEN i + 1
  ELSE IF Char(s, i) = "\\"
  THEN IF i + 1 <= Len(s) /\ Char(s, i + 1) \in {"\"", "\\", "/", "b", "f", "n", "r", "t"}
       THEN stringEnd(s, i + 2) ELSE 0
  ELSE IF Char(s, i) \in {"\n", "\t", "\r"} THEN 0
  ELSE stringEnd(s, i + 1)

parseString(s, i) ==
  LET e == stringEnd(s, i + 1)
  IN IF e = 0 THEN NoValue ELSE Value(e, SubSeq(s, i, e - 1))

\* the JSON value at position i of s, white space skipped, as its text
\* without white space between the tokens
RECURSIVE parseValue(_, _)
RECURSIVE parseElements(_, _, _)
RECURSIVE parseMembers(_, _, _)
parseValue(s, i) ==
  LET j == skipWs(s, i)
  IN IF j > Len(s) THEN NoValue
     ELSE IF LitAt(s, j, "null", FALSE) THEN Value(j + 4, "null")
     ELSE IF LitAt(s, j, "true", FALSE) THEN Value(j + 4, "true")
     ELSE IF LitAt(s, j, "false", FALSE) THEN Value(j + 5, "false")
     ELSE IF Char(s, j) = "\"" THEN parseString(s, j)
     ELSE IF Char(s, j) = "[" THEN
       (IF LitAt(s, skipWs(s, j + 1), "]", FALSE)
        THEN Value(skipWs(s, j + 1) + 1, "[]")
        ELSE parseElements(s, j + 1, "["))
     ELSE IF Char(s, j) = "{" THEN
       (IF LitAt(s, skipWs(s, j + 1), "}", FALSE)
        THEN Value(skipWs(s, j + 1) + 1, "{}")
        ELSE parseMembers(s, j + 1, "{"))
     ELSE parseNumber(s, j)

\* the elements of an array from position i on; acc is the text so far
parseElements(s, i, acc) ==
  LET v == parseValue(s, i)
      k == skipWs(s, v.next)
  IN IF ~v.ok THEN NoValue
     ELSE IF LitAt(s, k, ",", FALSE) THEN parseElements(s, k + 1, acc \o v.json \o ",")
     ELSE IF LitAt(s, k, "]", FALSE) THEN Value(k + 1, acc \o v.json \o "]")
     ELSE NoValue

\* the members of an object from position i on; acc is the text so far
parseMembers(s, i, acc) ==
  LET j == skipWs(s, i)
      key == IF LitAt(s, j, "\"", FALSE) THEN parseString(s, j) ELSE NoValue
      c == skipWs(s, key.next)
      v == IF key.ok /\ LitAt(s, c, ":", FALSE) THEN parseValue(s, c + 1) ELSE NoValue
      k == skipWs(s, v.next)
      member == key.json \o ":" \o v.json
  IN IF ~v.ok THEN NoValue
     ELSE IF LitAt(s, k, ",", FALSE) THEN parseMembers(s, k + 1, acc \o member \o ",")
     ELSE IF LitAt(s, k, "}", FALSE) THEN Value(k + 1, acc \o member \o "}")
     ELSE NoValue

\* originalJsonParse.call(JSON, text): the value, or a SyntaxError when the
\* text is not one JSON value
originalJsonParse(input) ==
  LET v == parseValue(input.str, 1)
  IN IF v.ok /\ skipWs(input.str, v.next) > Len(input.str)
     THEN Ok([json |-> v.json])
     ELSE Throw(JsonError)

\* the escapes applied in the other order
safeText_QuotesFirst(str) ==
  replaceAll(replaceAll(trim(str), 1, "\"", "\\\""), 1, "\\", "\\\\")

\* text.trim().replace(/\\/g, "\\\\").replace(/"/g, '\\"')
safeText(str) ==
  replaceAll(replaceAll(trim(str), 1, "\\", "\\\\"), 1, "\"", "\\\"")

\* JSON.parse after patchGlobalJsonParse()
safeJsonParse(input) ==
  LET r == originalJsonParse(input)
  IN IF r.kind = "ok" THEN r
     ELSE IF input.type = "string" THEN Ok([message |-> safeText(input.str)])
     ELSE r

\* JSON.parse(text)
Parse ==
  /\ parsed = << >>
  /\ parsed' = << safeJsonParse(jsonText) >>
  /\ UNCHANGED << server, stdout, writes, jsonText, markup, cleaned, uriToken,
                  nativeQuery, startup >>

InitParse ==
  /\ Start /\ env = [ANKI_DECK |-> "", DECK |-> ""]
  /\ stdout = << >> /\ writes = << >>
  /\ jsonText \in JsonInputs /\ parsed = << >>
  /\ markup = "" /\ cleaned = << >>
  /\ uriToken = "" /\ nativeQuery = << >> /\ startup = Running

NextParse == Parse

SpecParse == InitParse /\ [][NextParse]_vars

\* ----------------------------------------------------------------------
\* cleanWithRegex, applied to markup
\* ----------------------------------------------------------------------
MaxFragments == 3     \* fragments a markup string is made of

Fragments ==
  {"<b>", "<div>", "<style>", "</style>", "<", ">", "&amp;", "&lt;", "&gt;",
   "&quot;", "amp;", "lt;", "[anki:play:", "a]", "x", " ", "\n"}

\* the markup strings made of at most MaxFragments fragments
Markups == { concat(fs) : fs \in UNION { [1..n -> Fragments] : n \in 0..MaxFragments } }

\* cleanWithRegex(htmlString)
Clean ==
  /\ cleaned = << >>
  /\ cleaned' = << cleanWithRegex(markup) >>
  /\ UNCHANGED << server, stdout, writes, jsonText, parsed, markup, uriToken,
                  nativeQuery, startup >>

\* cleanWithRegex applied to its own result
CleanAgain ==
  /\ Len(cleaned) = 1
  /\ cleaned' = Append(cleaned, cleanWithRegex(cleaned[1]))
  /\ UNCHANGED << server, stdout, writes, jsonText, parsed, markup, uriToken,
                  nativeQuery, startup >>

InitClean ==
  /\ Start /\ env = [ANKI_DECK |-> "", DECK |-> ""]
  /\ stdout = << >> /\ writes = << >>
  /\ jsonText = [type |-> "string", str |-> ""] /\ parsed = << >>
  /\ markup \in Markups /\ cleaned = << >>
  /\ uriToken = "" /\ nativeQuery = << >> /\ startup = Running

NextClean == Clean \/ CleanAgain

SpecClean == InitClean /\ [][NextClean]_vars

\* ----------------------------------------------------------------------
\* formatQuery, applied to the last segment of a resource URI
\* ----------------------------------------------------------------------
MaxParts == 2         \* parts a query token is made of

QueryParts ==
  << "deck", "is", "d", "i", "s", "nid:", "due", "new", "current", ":", "Math", "5" >>

RECURSIVE PartsUpTo(_)
PartsUpTo(n) ==
  IF n = 0 THEN {""}
  ELSE LET shorter == PartsUpTo(n - 1)
       IN shorter \cup { t \o QueryParts[i] : t \in shorter, i \in 1..Len(QueryParts) }

\* the tokens findCardsAndOrder can be handed
Tokens == PartsUpTo(MaxParts)

\* formatQuery(query)
Format ==
  /\ nativeQuery = << >>
  /\ nativeQuery' = << formatQuery(uriToken) >>
  /\ UNCHANGED << server, stdout, writes, jsonText, parsed, markup, cleaned, uriToken,
                  startup >>

\* the next token
NextToken ==
  /\ nativeQuery # << >>
  /\ uriToken' \in Tokens
  /\ nativeQuery' = << >>
  /\ UNCHANGED << server, stdout, writes, jsonText, parsed, markup, cleaned, startup >>

InitQuery ==
  /\ Start
  /\ stdout = << >> /\ writes = << >>
  /\ jsonText = [type |-> "string", str |-> ""] /\ parsed = << >>
  /\ markup = "" /\ cleaned = << >>
  /\ uriToken \in Tokens /\ nativeQuery = << >> /\ startup = Running
  /\ env = [ANKI_DECK |-> "", DECK |-> ""]

NextQuery == Format \/ NextToken

SpecQuery == InitQuery /\ [][NextQuery]_vars

\* ----------------------------------------------------------------------
\* main
\* ----------------------------------------------------------------------
\* the process was started and main has not run yet
Fresh ==
  [pc |-> "main", wrapped |-> [m \in ClientMethods |-> 0], patched |-> 0,
   check |-> "none"]

\* a main that applies the patch inside the try block, after the listing
patchGlobalJsonParse_InsideTry(r) == IF r.kind = "throw" THEN 0 ELSE 1

\* how many times main calls patchGlobalJsonParse once the startup listing
\* has yielded r: the call stands after the try block
patchGlobalJsonParse(r) == 1

\* main, up to its first await: wrapMethod(client.deck, "deckNames"), ...
MainWrap ==
  /\ startup.pc = "main"
  /\ startup' = [startup EXCEPT
                   !.pc = "deckNames",
                   !.wrapped = [m \in ClientMethods |->
                                  IF m \in WrappedMethods THEN @[m] + 1 ELSE @[m]]]
  /\ UNCHANGED << server, stdout, writes, jsonText, parsed, markup, cleaned, uriToken,
                  nativeQuery >>

\* try { await client.deck.deckNames() } catch {}, then
\* patchGlobalJsonParse() and server.connect(transport)
MainDeckNames ==
  /\ startup.pc = "deckNames"
  /\ \E raw \in {Ok(decks), Throw(NetError), Throw(JsonError)} :
       LET r == wrapMethod("deckNames", raw)
       IN startup' = [startup EXCEPT !.pc = "connected",
                                     !.check = IF r.kind = "throw" THEN "failed"
                                               ELSE "ok",
                                     !.patched = @ + patchGlobalJsonParse(r)]
  /\ UNCHANGED << server, stdout, writes, jsonText, parsed, markup, cleaned, uriToken,
                  nativeQuery >>

\* requests reach the handlers through the connected transport
Serve == startup.pc = "connected" /\ Next

InitMain == Start /\ Quiet /\ startup = Fresh /\ env = [ANKI_DECK |-> "", DECK |-> ""]

NextMain == MainWrap \/ MainDeckNames \/ Serve

SpecMain == InitMain /\ [][NextMain]_vars

\* ----------------------------------------------------------------------
\* Vocabulary of the properties
\* ----------------------------------------------------------------------
ProvisionMethods == {"deckNames", "createDeck", "cloneDeckConfigId", "setDeckConfigId"}

MutatingMethods == {"createDeck", "addNote", "answerCards"}

\* the keys the tool descriptions and the specification require
RequiredKeys(name) ==
  CASE name = "add_card" -> {"front", "back"}
    [] name = "update_cards" -> {"answers"}
    [] name \in {"get_due_cards", "get_new_cards"} -> {"num"}
    [] OTHER -> {}

Complete(l) == l.hasArgs /\ RequiredKeys(l.tool) \subseteq DOMAIN l.args

IsProvisionCall(c) == c.m \in ProvisionMethods

\* the backend calls createDeckIfNeeded made in a request
ProvCalls(l) == SelectSeq(l.calls, IsProvisionCall)

Methods(calls) == [i \in 1..Len(calls) |-> calls[i].m]

\* createDeckIfNeeded has returned in the request
Provisioned(l) == l.prov # "none"

\* the last deck listing of a request
LastList(l) ==
  LET c == ProvCalls(l)
  IN c[CHOOSE i \in 1..Len(c) : c[i].m = "deckNames"
                                /\ \A j \in (i + 1)..Len(c) : c[j].m # "deckNames"]

Issued(l, m) == \E i \in 1..Len(l.calls) : l.calls[i].m = m

Failed(l, m) == \E i \in 1..Len(l.calls) : l.calls[i].m = m /\ l.calls[i].k = "throw"

\* ----------------------------------------------------------------------
\* C1
\* ----------------------------------------------------------------------
\* C1 as stated: createDeckIfNeeded returns true if and only if the deck
\* exists in the backend when the call returns, whatever its backend calls
\* yield.
C1_TrueIffDeckExists ==
  \A p \in Handlers :
    Provisioned(loc[p]) => ((loc[p].prov = "true") <=> loc[p].provExists)

\* C1 as amended: createDeckIfNeeded returns true only if the deck exists in
\* the backend when the call returns; when its last deck listing yields a
\* list it returns true if and only if the deck exists, and when that listing
\* fails it returns false whether the deck exists or not.
C1_TrueOnlyIfDeckExists ==
  \A p \in Handlers :
    Provisioned(loc[p]) =>
      /\ loc[p].prov = "true" => loc[p].provExists
      /\ LastList(loc[p]).k = "ok" => ((loc[p].prov = "true") <=> loc[p].provExists)
      /\ LastList(loc[p]).k # "ok" => loc[p].prov = "false"

\* a call that created the deck after a failed listing and returned true
C1_Witness ==
  \E p \in Handlers :
    /\ loc[p].prov = "true"
    /\ loc[p].provExists
    /\ ~AllOk(ProvCalls(loc[p]))
    /\ Issued(loc[p], "createDeck")
    /\ Complete(loc[p])

\* ----------------------------------------------------------------------
\* C2
\* ----------------------------------------------------------------------
\* C2: createDeckIfNeeded never throws to its caller: whatever backend calls
\* fail it returns a boolean, so an add_card request that ends before addNote
\* ends with the caller's own 'Failed to create deck' error; and it returns
\* false when its final listing of the decks fails.
C2_NeverThrows ==
  \A p \in Handlers :
    /\ loc[p].prov # "threw"
    /\ Provisioned(loc[p]) /\ LastList(loc[p]).k # "ok" => loc[p].prov = "false"
    /\ (loc[p].tool = "add_card" /\ loc[p].hasArgs /\ pc[p] = "done"
        /\ ~Issued(loc[p], "addNote"))
       => /\ loc[p].prov = "false"
          /\ resp[p] = Failure("Failed to create deck: " \o loc[p].deckName)

\* every call of a provisioning failed: first listing, creation, re-listing
C2_Witness ==
  \E p \in Handlers :
    /\ loc[p].prov = "false"
    /\ Len(ProvCalls(loc[p])) >= 3
    /\ \A i \in 1..Len(loc[p].calls) : loc[p].calls[i].k # "ok"
    /\ LastList(loc[p]).k = "throw"

\* ----------------------------------------------------------------------
\* C3
\* ----------------------------------------------------------------------
\* C3: addNote is issued only after createDeckIfNeeded returned true for the
\* very deck name passed to addNote; when provisioning returns false the
\* request ends with a 'Failed to create deck' error, no addNote is issued
\* and the server goes on to answer and take further requests.
C3_NoteOnlyAfterProvision ==
  \A p \in Handlers :
    /\ \A i \in 1..Len(loc[p].calls) :
         loc[p].calls[i].m = "addNote" =>
           /\ loc[p].prov = "true"
           /\ loc[p].calls[i].a = loc[p].deckName
           /\ \A j \in 1..Len(loc[p].calls) :
                loc[p].calls[j].m = "createDeck" =>
                  j < i /\ loc[p].calls[j].a = loc[p].calls[i].a
    /\ loc[p].prov = "false" =>
         /\ ~Issued(loc[p], "addNote")
         /\ pc[p] = "done"
         /\ resp[p] = Failure("Failed to create deck: " \o loc[p].deckName)
         /\ ENABLED Reply(p)

\* addNote issued for a deck this request had to create, after midnight passed
C3_Witness ==
  \E p \in Handlers :
    /\ Issued(loc[p], "addNote")
    /\ Issued(loc[p], "createDeck")
    /\ loc[p].deckName # getTodayDeckName(Dates[today])

\* ----------------------------------------------------------------------
\* C4
\* ----------------------------------------------------------------------
CreateFailedWithExists(l) ==
  \E i \in 1..Len(l.calls) :
    /\ l.calls[i].m = "createDeck"
    /\ l.calls[i].k = "throw"
    /\ includes(l.calls[i].e, "already exists")

\* C4 as stated: if createDeck fails with an error whose message contains
\* "already exists", createDeckIfNeeded returns true.
C4_AlreadyExistsReturnsTrue ==
  \A p \in Handlers :
    CreateFailedWithExists(loc[p]) /\ Provisioned(loc[p]) => loc[p].prov = "true"

\* C4 as amended: if createDeck fails with an error whose message contains
\* "already exists", createDeckIfNeeded does not give up: it lists the decks
\* again and returns true if and only if its last listing yields a list (the
\* deck is then in it); it returns false only when that listing fails.
C4_AlreadyExistsThenRelist ==
  \A p \in Handlers :
    CreateFailedWithExists(loc[p]) /\ Provisioned(loc[p]) =>
      /\ ProvCalls(loc[p])[Len(ProvCalls(loc[p]))].m = "deckNames"
      /\ (loc[p].prov = "true") <=> (LastList(loc[p]).k = "ok")
      /\ loc[p].prov = "true" => loc[p].provExists

\* creation lost the race and the re-listing confirmed the deck
C4_Witness ==
  \E p \in Handlers :
    /\ CreateFailedWithExists(loc[p])
    /\ loc[p].prov = "true"
    /\ loc[p].calls[1].k = "ok"

\* ----------------------------------------------------------------------
\* C5
\* ----------------------------------------------------------------------
\* C5: provisioning is idempotent.  A createDeckIfNeeded call whose backend
\* calls all succeed returns true; from an absent deck it issues the listing,
\* createDeck, cloneDeckConfigId, setDeckConfigId and the re-listing, and a
\* later call for a deck so provisioned issues the listing alone.
C5_Idempotent ==
  \A p \in Handlers :
    Provisioned(loc[p]) /\ AllOk(ProvCalls(loc[p])) =>
      /\ loc[p].prov = "true"
      /\ loc[p].again => Methods(ProvCalls(loc[p])) = << "deckNames" >>
      /\ Len(ProvCalls(loc[p])) > 1 =>
           Methods(ProvCalls(loc[p])) =
             << "deckNames", "createDeck", "cloneDeckConfigId", "setDeckConfigId",
                "deckNames" >>

\* the second of two calls for a deck, after a first that created it
C5_Witness ==
  \E p \in Handlers :
    /\ loc[p].again
    /\ loc[p].prov = "true"
    /\ AllOk(ProvCalls(loc[p]))
    /\ loc[p].deckName \in provisioned

\* ----------------------------------------------------------------------
\* C6
\* ----------------------------------------------------------------------
ConfigStepFailed(l) ==
  /\ \E i \in 1..Len(l.calls) : l.calls[i].m = "createDeck" /\ l.calls[i].k = "ok"
  /\ Failed(l, "cloneDeckConfigId") \/ Failed(l, "setDeckConfigId")

\* C6 as stated: if createDeck succeeds but cloning the default configuration
\* or associating it then fails, createDeckIfNeeded still returns true.
C6_ConfigFailureReturnsTrue ==
  \A p \in Handlers :
    ConfigStepFailed(loc[p]) /\ Provisioned(loc[p]) => loc[p].prov = "true"

\* C6 as amended: if createDeck succeeds but cloning the default
\* configuration or associating it then fails, the deck stays created and
\* createDeckIfNeeded lists the decks again: it returns true if and only if
\* that listing yields a list, and false when the listing fails too.
C6_ConfigFailureThenRelist ==
  \A p \in Handlers :
    ConfigStepFailed(loc[p]) =>
      /\ loc[p].deckName \in decks
      /\ Provisioned(loc[p]) =>
           /\ ProvCalls(loc[p])[Len(ProvCalls(loc[p]))].m = "deckNames"
           /\ (loc[p].prov = "true") <=> (LastList(loc[p]).k = "ok")
           /\ loc[p].prov = "true" => loc[p].provExists

\* the association failed and the call still returned true
C6_Witness ==
  \E p \in Handlers :
    /\ ConfigStepFailed(loc[p])
    /\ Failed(loc[p], "setDeckConfigId")
    /\ loc[p].prov = "true"

\* ----------------------------------------------------------------------
\* C7
\* ----------------------------------------------------------------------
AddNoteReturned(l) == \E i \in 1..Len(l.calls) : l.calls[i].m = "addNote"

UpdateDone(p) ==
  /\ loc[p].tool = "update_cards"
  /\ loc[p].hasArgs
  /\ "answers" \in DOMAIN loc[p].args
  /\ pc[p] = "done"

Ids(answers) == [i \in 1..Len(answers) |-> answers[i].cardId]

Rejected(a) == ~Accepts(a)

\* the card ids at the positions the backend rejects, in input order
RejectedIds(answers) == Ids(SelectSeq(answers, Rejected))

ResourceQuery(uri) == formatQuery(lastSegment(pathname(uri)))

\* C9: the search get_due_cards issues is the search a read of
\* anki://search/isdue issues, `is:due`, and the search get_new_cards issues
\* is that of anki://search/isnew, `is:new`.
C9_ToolQueryIsResourceQuery ==
  \A p \in Handlers : \A i \in 1..Len(loc[p].calls) :
    loc[p].calls[i].m = "findCards" =>
      /\ loc[p].tool = "get_due_cards" =>
           /\ loc[p].calls[i].a = ResourceQuery("anki://search/isdue")
           /\ loc[p].calls[i].a = "is:due"
      /\ loc[p].tool = "get_new_cards" =>
           /\ loc[p].calls[i].a = ResourceQuery("anki://search/isnew")
           /\ loc[p].calls[i].a = "is:new"

\* ----------------------------------------------------------------------
\* C10
\* ----------------------------------------------------------------------
\* C10: a tool call whose arguments lack a required key is rejected: it
\* ends with an error and issues no create-deck, add-note or batch-answer
\* call.
C10_MissingKeyRejected ==
  \A p \in Handlers :
    (loc[p].hasArgs /\ ~Complete(loc[p])) =>
      /\ \A i \in 1..Len(loc[p].calls) : loc[p].calls[i].m \notin MutatingMethods
      /\ pc[p] = "done" => resp[p].status = "error"

\* ----------------------------------------------------------------------
\* C11
\* ----------------------------------------------------------------------
\* a resource read whose URI has no last path segment
NoSegment(l) == l.tool = "read_resource" /\ l.query = ""

\* a tool call without an arguments payload
NoArguments(l) == l.tool # "read_resource" /\ ~l.hasArgs

\* a tool call with arguments for a tool the server does not have
UnknownTool(l) == l.tool \notin ToolNames \cup {"read_resource"} /\ l.hasArgs

\* C11: every invalid request fails with an explicit error and issues no
\* backend call: a resource read whose URI has no last path segment, a tool
\* call without arguments (the error names the tool, known or not) and a
\* tool call with arguments for an unknown tool ("Unknown tool"); the
\* handler ends and the server can answer and go on.
C11_InvalidRequestFails ==
  \A p \in Handlers :
    pc[p] # "idle" =>
      /\ NoSegment(loc[p]) =>
           /\ pc[p] = "done"
           /\ resp[p] = Failure("Invalid resource URI")
           /\ loc[p].calls = << >>
           /\ ENABLED Reply(p)
      /\ NoArguments(loc[p]) =>
           /\ pc[p] = "done"
           /\ resp[p].status = "error"
           /\ includes(resp[p].text, loc[p].tool)
           /\ loc[p].calls = << >>
           /\ ENABLED Reply(p)
      /\ UnknownTool(loc[p]) =>
           /\ pc[p] = "done"
           /\ resp[p] = Failure("Unknown tool")
           /\ loc[p].calls = << >>
           /\ ENABLED Reply(p)

\* a read of a URI without a last segment failed as a later request, after
\* the server created a note
C11_Witness ==
  \E p \in Handlers :
    /\ pc[p] = "done"
    /\ NoSegment(loc[p])
    /\ nreq = MaxRequests
    /\ notes # {}

\* ----------------------------------------------------------------------
\* C12
\* ----------------------------------------------------------------------
\* a chunk the stream can take whose text begins with the envelope marker
BeginsWithMarker(w) ==
  w.chunk.type \in {"string", "buffer"} /\ startsWith(w.chunk.str, "{\"jsonrpc\"")

\* a chunk the stream can take whose text begins with the envelope marker
\* once the white space around it is removed
TrimmedBeginsWithMarker(w) ==
  w.chunk.type \in {"string", "buffer"} /\ startsWith(trim(w.chunk.str), "{\"jsonrpc\"")

ChunksOf(ws) == [i \in 1..Len(ws) |-> ws[i].chunk]

\* C12 as stated: after any sequence of writes, every chunk that reached the
\* underlying stream begins with the envelope marker, the stream holds
\* exactly those chunks of the writes, unchanged and in write order, and
\* every other write returned true.
C12_OnlyMarkerChunksForwarded ==
  /\ \A i \in 1..Len(stdout) : startsWith(stdout[i].str, "{\"jsonrpc\"")
  /\ stdout = ChunksOf(SelectSeq(writes, BeginsWithMarker))
  /\ \A i \in 1..Len(writes) : ~BeginsWithMarker(writes[i]) => writes[i].returned

\* C12 as amended: after any sequence of writes, every chunk that reached
\* the underlying stream begins with the envelope marker once leading white
\* space is removed, the stream holds exactly those chunks of the writes,
\* unchanged and in write order, and every other write (one whose chunk
\* cannot be converted to text included) wrote nothing and returned true.
C12_OnlyTrimmedMarkerChunksForwarded ==
  /\ \A i \in 1..Len(stdout) : startsWith(trim(stdout[i].str), "{\"jsonrpc\"")
  /\ stdout = ChunksOf(SelectSeq(writes, TrimmedBeginsWithMarker))
  /\ \A i \in 1..Len(writes) :
       ~TrimmedBeginsWithMarker(writes[i]) => writes[i].returned

\* a message, then a dropped warning, then a message after white space
C12_Witness ==
  /\ Len(writes) = 3
  /\ Len(stdout) = 2
  /\ ~TrimmedBeginsWithMarker(writes[2])
  /\ ~startsWith(stdout[2].str, "{\"jsonrpc\"")

\* ----------------------------------------------------------------------
\* C13
\* ----------------------------------------------------------------------
\* a backend response of the request could not be deserialized: the wrapped
\* method resolved to null
Malformed(l) == \E i \in 1..Len(l.calls) : l.calls[i].k = "null"

\* no backend call of the request raised an error
NoneThrew(l) == \A i \in 1..Len(l.calls) : l.calls[i].k # "throw"

\* C13: a backend response that cannot be deserialized while a resource
\* read or a tool call is handled does not abort the request: when nothing
\* else goes wrong (no backend call raises an error, the arguments are
\* complete, no answer is rejected) the request ends without an error.
C13_MalformedResponseAbsorbed ==
  \A p \in Handlers :
    (/\ pc[p] = "done"
     /\ Complete(loc[p])
     /\ Malformed(loc[p])
     /\ NoneThrew(loc[p])
     /\ loc[p].tool = "update_cards" => RejectedIds(loc[p].args.answers) = << >>)
    => resp[p].status = "ok"

\* ----------------------------------------------------------------------
\* C14
\* ----------------------------------------------------------------------
\* C14: for every backend client method the adapter calls, a
\* deserialization failure resolves to null instead of propagating, and
\* every other error propagates unchanged: no call a request makes raises
\* the SyntaxError of a response that is not JSON.
C14_EveryMethodWrapped ==
  /\ \A m \in ClientMethods : \A e \in {NetError, ExistsError, QueryError} :
       wrapMethod(m, Throw(e)) = Throw(e)
  /\ \A p \in Handlers : \A i \in 1..Len(loc[p].calls) :
       /\ loc[p].calls[i].m \in ClientMethods
       /\ ~(loc[p].calls[i].k = "throw" /\ loc[p].calls[i].e = JsonError.message)

\* ----------------------------------------------------------------------
\* C15
\* ----------------------------------------------------------------------
\* the text an escaped text stands for: each backslash is dropped and the
\* character after it kept
RECURSIVE unescape(_)
unescape(m) ==
  IF m = "" THEN ""
  ELSE IF Char(m, 1) = "\\" /\ Len(m) >= 2 THEN Char(m, 2) \o unescape(slice(m, 2))
  ELSE Char(m, 1) \o unescape(slice(m, 1))

\* in m every backslash opens the escape of a backslash or of a double
\* quote, and no double quote stands unescaped
RECURSIVE Escaped(_)
Escaped(m) ==
  IF m = "" THEN TRUE
  ELSE IF Char(m, 1) = "\\"
  THEN Len(m) >= 2 /\ Char(m, 2) \in {"\\", "\""} /\ Escaped(slice(m, 2))
  ELSE Char(m, 1) # "\"" /\ Escaped(slice(m, 1))

\* C15: for every string the patched JSON.parse does not raise: it yields
\* what the original parse yields when the text is valid JSON, and otherwise
\* a record whose message is the trimmed text with its backslashes and
\* double quotes escaped; for an input that is not a string the original
\* error is raised again.
C15_PatchedParseNeverRaises ==
  parsed # << >> =>
    LET r == parsed[1]
        o == originalJsonParse(jsonText)
    IN /\ jsonText.type = "string" => r.kind = "ok"
       /\ o.kind = "ok" => r = o
       /\ (o.kind = "throw" /\ jsonText.type = "string") =>
            /\ DOMAIN r.value = {"message"}
            /\ Escaped(r.value.message)
            /\ unescape(r.value.message) = trim(jsonText.str)
       /\ (o.kind = "throw" /\ jsonText.type # "string") => r = o

\* a text that is not JSON, with white space to trim and with a backslash
\* and a double quote to escape, came back as the fallback record
C15_Witness ==
  /\ parsed # << >>
  /\ jsonText.type = "string"
  /\ originalJsonParse(jsonText).kind = "throw"
  /\ includes(jsonText.str, "\\")
  /\ includes(jsonText.str, "\"")
  /\ trim(jsonText.str) # jsonText.str
  /\ parsed[1].value.message # jsonText.str

\* ----------------------------------------------------------------------
\* C16
\* ----------------------------------------------------------------------
\* a get_due_cards or get_new_cards request with a numeric num has answered
\* with a list
CardsAnswered(p) ==
  /\ loc[p].tool \in {"get_due_cards", "get_new_cards"}
  /\ loc[p].hasArgs
  /\ "num" \in DOMAIN loc[p].args
  /\ pc[p] = "done"
  /\ resp[p].status = "ok"

\* C16: for every numeric num, get_due_cards and get_new_cards answer with
\* at most num cards, none when num is zero or negative, and the cards are
\* the first entries of the full result sorted by ascending due.
C16_AtMostNumFirstCards ==
  \A p \in Handlers :
    CardsAnswered(p) =>
      LET num == loc[p].args.num
          data == resp[p].data
      IN /\ Len(data) <= (IF num > 0 THEN num ELSE 0)
         /\ data = SubSeq(loc[p].cards, 1, Len(data))
         /\ Len(data) < Len(loc[p].cards) => Len(data) = (IF num > 0 THEN num ELSE 0)

\* ----------------------------------------------------------------------
\* C17
\* ----------------------------------------------------------------------
\* findCardsAndOrder has returned a list in the request of p
Listed(p) ==
  /\ pc[p] = "done"
  /\ loc[p].calls # << >>
  /\ loc[p].calls[Len(loc[p].calls)].m = "cardsInfo"
  /\ loc[p].calls[Len(loc[p].calls)].k = "ok"

\* the records the backend holds for the identifiers the search matched
Fetched(p) == CardRecords(loc[p].cardIds, AllCards(notes, reviewed))

\* C17: every card list findCardsAndOrder produces, for a resource read,
\* get_due_cards or get_new_cards, holds exactly one card per record fetched
\* from the backend for the matching identifiers, with the record's
\* identifier and due key, and is sorted by ascending due key.
C17_OneCardPerRecordSortedByDue ==
  \A p \in Handlers :
    Listed(p) =>
      LET cards == loc[p].cards
          records == Fetched(p)
      IN /\ Len(cards) = Len(records)
         /\ \A i \in 1..Len(records) :
              Cardinality({ j \in 1..Len(cards) :
                              /\ cards[j].cardId = records[i].cardId
                              /\ cards[j].due = records[i].due }) = 1
         /\ \A i, j \in 1..Len(cards) : i < j => cards[i].due <= cards[j].due

\* a list of three cards or more that the backend gave in another order
C17_Witness ==
  \E p \in Handlers :
    /\ Listed(p)
    /\ loc[p].tool = "read_resource"
    /\ Len(loc[p].cards) >= 3
    /\ loc[p].cards[1].cardId # loc[p].cardIds[1]

\* ----------------------------------------------------------------------
\* C18
\* ----------------------------------------------------------------------
\* C18 as stated: the normalizer is idempotent: for every markup string s,
\* cleanWithRegex(cleanWithRegex(s)) equals cleanWithRegex(s).
C18_Idempotent ==
  Len(cleaned) = 2 => cleaned[2] = cleaned[1]

\* C18 as amended: for every markup string s that holds no `&` (no
\* character entity) and no `[` (no play marker),
\* cleanWithRegex(cleanWithRegex(s)) equals cleanWithRegex(s).
C18_IdempotentWithoutEntities ==
  (Len(cleaned) = 2 /\ ~includes(markup, "&") /\ ~includes(markup, "["))
    => cleaned[2] = cleaned[1]

\* markup with a division, a tag and a style element, normalized twice
C18_Witness ==
  /\ Len(cleaned) = 2
  /\ ~includes(markup, "&")
  /\ ~includes(markup, "[")
  /\ includes(markup, "<div>")
  /\ includes(markup, "x")
  /\ includes(markup, "<b>")
  /\ cleaned[1] = "x"

\* ----------------------------------------------------------------------
\* C19
\* ----------------------------------------------------------------------
\* C19: the normalizer decodes each character entity at most once: the text
\* that decoding `&amp;` produces is not decoded again, so `&amp;lt;`
\* normalizes to `&lt;`, `&amp;amp;` to `&amp;`, and likewise for the other
\* entities.
C19_DecodedOnce ==
  cleaned # << >> =>
    \A e \in {"lt;", "amp;"} :
      /\ markup = "&amp;" \o e => cleaned[1] = "&" \o e
      /\ markup = "x&amp;" \o e => cleaned[1] = "x&" \o e

\* ----------------------------------------------------------------------
\* C20
\* ----------------------------------------------------------------------
\* s holds a markup tag: a `<`, one character or more that are not `>`, a `>`
HasTag(s) == \E i \in 1..Len(s) : TagEnd(s, i, "<", ">", 1, FALSE) # 0

\* the lines of a text, none for the empty text
Lines(s) == IF s = "" THEN << >> ELSE split(s)

\* s holds an empty line or a line of white space only
HasBlankLine(s) == \E i \in 1..Len(Lines(s)) : trim(Lines(s)[i]) = ""

\* C20 as stated: for every input string the output of cleanWithRegex holds
\* no markup tag, none of the five raw entities and no empty or
\* white-space-only line.
C20_NoTagNoEntityNoBlankLine ==
  cleaned # << >> =>
    /\ ~HasTag(cleaned[1])
    /\ \A e \in {"&nbsp;", "&amp;", "&lt;", "&gt;", "&quot;"} : ~includes(cleaned[1], e)
    /\ ~HasBlankLine(cleaned[1])

\* C20 as amended: for every input string the output of cleanWithRegex
\* holds no empty or white-space-only line, no line that begins or ends with
\* white space, and none of the raw entities &lt; &gt; &quot;; when the input
\* holds no `&` the output also holds no markup tag and no raw entity.
C20_NoBlankLineAndNoTagWithoutEntities ==
  cleaned # << >> =>
    /\ ~HasBlankLine(cleaned[1])
    /\ \A i \in 1..Len(Lines(cleaned[1])) :
         trim(Lines(cleaned[1])[i]) = Lines(cleaned[1])[i]
    /\ \A e \in {"&lt;", "&gt;", "&quot;"} : ~includes(cleaned[1], e)
    /\ ~includes(markup, "&") =>
         /\ ~HasTag(cleaned[1])
         /\ ~includes(cleaned[1], "&")

\* two divisions in a row and a tag came out as two lines
C20_Witness ==
  /\ cleaned # << >>
  /\ ~includes(markup, "&")
  /\ HasTag(markup)
  /\ HasBlankLine(replaceTag(markup, 1, "<div", ">", 0, "\n"))
  /\ Len(Lines(cleaned[1])) = 1
  /\ cleaned[1] # markup

\* ----------------------------------------------------------------------
\* C21
\* ----------------------------------------------------------------------
\* the first n characters of token t are the characters of pre
Begins(t, pre) == Len(t) >= Len(pre) /\ SubSeq(t, 1, Len(pre)) = pre

\* the characters of token t after its first n
After(t, n) == SubSeq(t, n + 1, Len(t))

\* C21: formatQuery maps every token that starts with `deck` to `deck:`
\* followed by the rest after those 4 characters, every other token that
\* starts with `is` to `is:` followed by the rest after those 2 characters,
\* and returns every other token unchanged; `deckcurrent`, `isdue`, `isnew`
\* become `deck:current`, `is:due`, `is:new`.
C21_FormatQueryRule ==
  nativeQuery # << >> =>
    LET t == uriToken
        r == nativeQuery[1]
    IN /\ Begins(t, "deck") => r = "deck:" \o After(t, 4)
       /\ (~Begins(t, "deck") /\ Begins(t, "is")) => r = "is:" \o After(t, 2)
       /\ (~Begins(t, "deck") /\ ~Begins(t, "is")) => r = t
       /\ t = "deckcurrent" => r = "deck:current"
       /\ t = "isdue" => r = "is:due"
       /\ t = "isnew" => r = "is:new"

\* the token deckMath was translated
C21_Witness == uriToken = "deckMath" /\ nativeQuery = << "deck:Math" >>

\* ----------------------------------------------------------------------
\* C22
\* ----------------------------------------------------------------------
\* the base deck the DECK environment variable selects
DocumentedPrefix == IF env.DECK # "" THEN env.DECK ELSE "00_Inbox"

\* prefix::YYYY::MM::DD for one of the days the clock has shown
DatedPaths(prefix) ==
  { prefix \o "::" \o ToString(Dates[i].y) \o "::" \o padStart2(ToString(Dates[i].m))
           \o "::" \o padStart2(ToString(Dates[i].d)) : i \in 1..today }

\* C22: when the DECK environment variable is set to a non-empty value V,
\* add_card files the new card into the deck path V::YYYY::MM::DD for
\* today's date; when it is not set, into 00_Inbox::YYYY::MM::DD.
C22_DeckVariableSelectsPrefix ==
  \A p \in Handlers : \A i \in 1..Len(loc[p].calls) :
    loc[p].calls[i].m = "addNote" => loc[p].calls[i].a \in DatedPaths(DocumentedPrefix)

\* ----------------------------------------------------------------------
\* C23
\* ----------------------------------------------------------------------
\* the createDeck of the request was rejected: the deck already existed
LostRace(l) ==
  \E i \in 1..Len(l.calls) :
    l.calls[i].m = "createDeck" /\ l.calls[i].e = ExistsError.message

\* the createDeck of the request created the deck
WonRace(l) ==
  \E i \in 1..Len(l.calls) : l.calls[i].m = "createDeck" /\ l.calls[i].k = "ok"

\* C23: under every interleaving of two concurrent add_card calls that
\* compute the same deck path, with a backend whose calls all respond, both
\* provisioning calls return true and both calls create their card: losing
\* the creation race never surfaces as a failure of either call.
C23_BothConcurrentAddsSucceed ==
  \A p \in Handlers :
    (loc[p].tool = "add_card" /\ Responds(loc[p])) =>
      /\ loc[p].prov \in {"none", "true"}
      /\ pc[p] = "done" =>
           /\ loc[p].prov = "true"
           /\ resp[p].status = "ok"
           /\ loc[p].created
           /\ \E n \in notes : n.id = loc[p].noteId /\ n.deck = loc[p].deckName

\* two add_card calls for the same deck path are answered together, one of
\* them having created the deck and the other having lost the race
C23_Witness ==
  \E p, q \in Handlers :
    /\ p # q
    /\ pc[p] = "done" /\ pc[q] = "done"
    /\ loc[p].deckName = loc[q].deckName
    /\ WonRace(loc[p]) /\ LostRace(loc[q])
    /\ resp[p].status = "ok" /\ resp[q].status = "ok"

\* ----------------------------------------------------------------------
\* C27
\* ----------------------------------------------------------------------
\* the configurations the backend holds under the name of deck d
ConfigsOf(d) == { c \in configs : c.name = d \o "::config" }

\* the request issued createDeck before its call number i, and it returned
CreatedBefore(l, i) ==
  \E j \in 1..(i - 1) : l.calls[j].m = "createDeck" /\ l.calls[j].k = "ok"

\* C27: under every interleaving of concurrent add_card calls for the same
\* deck path, at most one configuration named `<deckPath>::config` is cloned
\* and associated with that deck, and the clone-config and set-config calls
\* are issued only for a deck whose creation succeeded.
C27_AtMostOneConfigPerDeck ==
  /\ \A d \in DeckNames : Cardinality(ConfigsOf(d)) <= 1
  /\ \A p \in Handlers : \A i \in 1..Len(loc[p].calls) :
       loc[p].calls[i].m \in {"cloneDeckConfigId", "setDeckConfigId"} =>
         CreatedBefore(loc[p], i)

\* ----------------------------------------------------------------------
\* C26
\* ----------------------------------------------------------------------
\* C26: whenever an add_card call fails, that call has created no note in
\* the backend, so a failed call can be retried without producing a
\* duplicate card.
C26_FailedAddCreatedNoNote ==
  \A p \in Handlers :
    (loc[p].tool = "add_card" /\ pc[p] = "done" /\ resp[p].status = "error") =>
      ~loc[p].created

\* ----------------------------------------------------------------------
\* C24
\* ----------------------------------------------------------------------
\* the places where a handler waits for the backend
Awaits ==
  {"deckNames1", "deckNames2", "deckNames3", "createDeck", "cloneDeckConfigId",
   "setDeckConfigId", "addNote", "findCardsNid", "findCards", "cardsInfo",
   "answerCards"}

\* how many calls of method m the request has issued
CallsOf(l, m) == Cardinality({ i \in 1..Len(l.calls) : l.calls[i].m = m })

\* the backend calls of one request are bounded, with no retry
BoundedCalls ==
  \A p \in Handlers :
    /\ CallsOf(loc[p], "deckNames") <= 3
    /\ CallsOf(loc[p], "createDeck") <= 1
    /\ CallsOf(loc[p], "cloneDeckConfigId") <= 1
    /\ CallsOf(loc[p], "setDeckConfigId") <= 1
    /\ CallsOf(loc[p], "addNote") <= 1
    /\ CallsOf(loc[p], "findCards") <= 1
    /\ CallsOf(loc[p], "cardsInfo") <= 1
    /\ CallsOf(loc[p], "answerCards") <= 1

\* a handler leaves an await only with the answer of the call it awaits:
\* there is no timeout and no cancellation
ResumedByAnswer ==
  \A p \in Handlers :
    (pc[p] \in Awaits /\ pc'[p] # pc[p]) =>
      /\ Len(loc'[p].calls) = Len(loc[p].calls) + 1
      /\ SubSeq(loc'[p].calls, 1, Len(loc[p].calls)) = loc[p].calls

\* C24: a resource-read or tool-call request completes (with a result or an
\* error) if and only if every backend call it issues responds, and then
\* after a bounded number of backend calls with no retry loop:
\* createDeckIfNeeded issues at most three deck-list calls and at most one
\* create-deck, one clone-config and one set-config call; a backend call that
\* never responds leaves the request pending forever.
C24_CompletesIffBackendAnswers ==
  /\ []BoundedCalls
  /\ [][ResumedByAnswer]_vars
  /\ \A p \in Handlers : (pc[p] \in Awaits) ~> (pc[p] = "done")

\* a request is answered after three deck listings
C24_Witness ==
  \E p \in Handlers :
    /\ pc[p] = "done"
    /\ resp[p].status # "none"
    /\ CallsOf(loc[p], "deckNames") = 3

\* ----------------------------------------------------------------------
\* C25
\* ----------------------------------------------------------------------
\* each wrapper and the patch are in place, once
InstalledOnce ==
  /\ \A m \in WrappedMethods : startup.wrapped[m] = 1
  /\ \A m \in ClientMethods \ WrappedMethods : startup.wrapped[m] = 0
  /\ startup.patched = 1

\* a request has reached a handler
Handled == nreq > 0 \/ \E p \in Handlers : pc[p] # "idle"

\* nothing is installed twice, and the server is connected and requests are
\* handled only with everything installed
InstalledBeforeServing ==
  /\ \A m \in ClientMethods : startup.wrapped[m] <= 1
  /\ startup.patched <= 1
  /\ Handled => startup.pc = "connected"
  /\ startup.pc = "connected" => InstalledOnce

\* C25: the backend-client method wrappers and the JSON.parse patch are each
\* installed exactly once at startup, before the server connects to the
\* transport and so before any request is handled, also when the startup
\* connectivity check fails; they are never replaced or removed afterwards.
C25_InstalledOnceBeforeConnect ==
  /\ []InstalledBeforeServing
  /\ [][startup.pc = "connected" => startup' = startup]_vars

\* a request was handled after the startup connectivity check had failed
C25_Witness ==
  /\ startup.pc = "connected"
  /\ startup.check = "failed"
  /\ InstalledOnce
  /\ \E p \in Handlers : pc[p] = "done"

====
